---- MODULE Spec2Model ----
(***************************************************************************)
(* Model of the CCTV hub (raspberry-pi-hub/cctv_hub.py): the motion        *)
(* poller (poll_motion), the health monitor (health_check), the stream     *)
(* relay (gen_frames) and the read API, over the shared maps motion_state  *)
(* and camera_health; and of the camera script (main.py): connect_wifi,    *)
(* configure_camera, stream_frames, start_server.                          *)
(***************************************************************************)
EXTENDS Integers, Sequences, FiniteSets, TLC

VARIABLES
    cameras,        \* config['cameras']: the list of camera entries
    recording,      \* config['recording']: enabled, snapshot_on_motion
    now,            \* the wall clock read by time.time() / datetime.now()
    motion_state,   \* global motion_state: camera name -> bool
    camera_health,  \* global camera_health: camera name -> health dict
    files,          \* snapshot files in the recordings directory: <<name, timestamp>>
    pm_pc,          \* poll_motion: position in the thread's code
    pm_i,           \* poll_motion: index of `cam` in the for loop
    is_motion,      \* poll_motion: local is_motion
    prev_motion,    \* poll_motion: local prev_motion
    pm_log,         \* history of the camera poll in progress / last finished
    pm_probed,      \* history: cameras probed so far in the current poll_motion cycle
    hc_pc,          \* health_check: position in the thread's code
    hc_i,           \* health_check: index of `cam` in the for loop
    status_code,    \* health_check: response.status_code of the last response
    hc_tmp,         \* health_check: the value read on the right of line 612
    hc_log,         \* history of the health probe in progress / last finished
    hc_probed,      \* history: cameras probed so far in the current health_check cycle
    cap,            \* gen_frames: local cap ("none", "open", "unopened")
    retry_count,    \* gen_frames: local retry_count
    rl_pc,          \* gen_frames: position in the generator's code
    rl_log,         \* history of the relay
    api_pc,         \* the read API: position in the handler of the request in progress
    api_name,       \* status(name): the name in the request
    api_i,          \* api_cameras, api_health: position of the iteration
    api_resp,       \* the response under construction, and as sent
    cm_pc,          \* camera (main.py): position in main() and the functions it calls
    station,        \* camera: the WLAN station: active, connected
    cm_time,        \* camera: the device clock read by time.time(), in seconds
    deadline,       \* connect_wifi: local deadline
    cw_log,         \* history of connect_wifi
    sensor,         \* camera: the state of the camera driver
    server_socket,  \* start_server: the state of server_socket
    clients,        \* start_server: the client sockets accepted so far
    cm_exc,         \* camera: the exception in flight
    retries,        \* stream_frames: local retries
    sf_k,           \* stream_frames: the next segment of the headers / of the frame
    out,            \* what the current client has been sent, segment by segment
    sf_log,         \* history of the stream_frames call in progress / last finished
    cm_calls        \* history: the functions main() has called, in order

confVars   == <<cameras, recording>>
storeVars  == <<motion_state, camera_health>>
pmVars     == <<pm_pc, pm_i, is_motion, prev_motion, pm_log, pm_probed, files>>
hcVars     == <<hc_pc, hc_i, status_code, hc_tmp, hc_log, hc_probed>>
relayVars  == <<cap, retry_count, rl_pc, rl_log>>
apiVars    == <<api_pc, api_name, api_i, api_resp>>
hubVars    == <<confVars, storeVars, now, pmVars, hcVars, relayVars, apiVars>>
wifiVars   == <<station, cm_time, deadline, cw_log>>
serverVars == <<server_socket, clients, cm_exc, retries, sf_k, out, sf_log>>
camVars    == <<cm_pc, wifiVars, sensor, serverVars, cm_calls>>
vars == <<cameras, recording, now, motion_state, camera_health, files,
          pm_pc, pm_i, is_motion, prev_motion, pm_log, pm_probed,
          hc_pc, hc_i, status_code, hc_tmp, hc_log, hc_probed,
          cap, retry_count, rl_pc, rl_log,
          api_pc, api_name, api_i, api_resp,
          cm_pc, station, cm_time, deadline, cw_log, sensor, server_socket,
          clients, cm_exc, retries, sf_k, out, sf_log, cm_calls>>

(***************************************************************************)
(* Bounds of the model.                                                    *)
(***************************************************************************)
MaxClock == 3          \* the clock runs over 1..MaxClock, in ticks
MaxUptimeChecks == 2   \* uptime is followed up to this many check intervals
MaxLateness == 2       \* the camera's clock runs up to this many seconds past the deadline
MaxClients == 2        \* the camera's server accepts up to this many clients
MaxFrames == 2         \* a client of the camera is sent up to this many frames

(***************************************************************************)
(* Program constants.                                                      *)
(***************************************************************************)
HealthCheckInterval == 10   \* config['polling']['health_check_interval']
max_retries == 3            \* gen_frames: max_retries
Absent == -1                \* a key that the dict does not hold
WIFI_CONNECT_TIMEOUT == 15  \* main.py: WIFI_CONNECT_TIMEOUT
MAX_CAPTURE_RETRIES == 5    \* main.py: MAX_CAPTURE_RETRIES
TicksPerSecond == 2         \* the clock resolves finer than the seconds of '%S'

(***************************************************************************)
(* Configuration.  A camera entry holds 'name', optionally 'enabled' and   *)
(* 'ip'; load_config returns the JSON file as it is, so an entry may lack  *)
(* 'ip' (has_ip = FALSE).  An entry without 'name' stops main() at startup *)
(* and is not a state of the running hub.                                  *)
(***************************************************************************)
CameraNames == <<"Cam1", "Cam2">>

CameraLists ==
    { <<e1, e2>> : e1 \in [name : {CameraNames[1]}, enabled : BOOLEAN, has_ip : BOOLEAN],
                   e2 \in [name : {CameraNames[2]}, enabled : BOOLEAN, has_ip : BOOLEAN] }

RecordingConfigs == [enabled : BOOLEAN, snapshot_on_motion : BOOLEAN]

\* cam.get('enabled', True)
Enabled(cam) == cam.enabled

EnabledNames == { cameras[k].name : k \in { j \in 1..Len(cameras) : Enabled(cameras[j]) } }

(***************************************************************************)
(* dict helpers                                                            *)
(***************************************************************************)
\* d.get(k, default)
Get(d, k, default) == IF k \in DOMAIN d THEN d[k] ELSE default

\* d[k] = v
Put(d, k, v) == [x \in (DOMAIN d) \cup {k} |-> IF x = k THEN v ELSE d[x]]

\* main(): the state every enabled camera starts with
InitialMotionState == [n \in EnabledNames |-> FALSE]

InitialCameraHealth ==
    [n \in EnabledNames |->
        [online |-> FALSE, last_check |-> 0, uptime |-> Absent, last_motion |-> Absent]]

(***************************************************************************)
(* poll_motion                                                             *)
(***************************************************************************)
PmIdleLog ==
    [name |-> "", before |-> FALSE, lm_before |-> Absent, t_probe |-> 0,
     result |-> "none", attempts |-> 0, writes |-> 0,
     prev_stamp |-> Absent, stamp |-> Absent, done |-> FALSE]

\* the outcomes of requests.get(motion_url).json() and data.get('motion', False)
MotionProbeResults ==
    {"true", "false", "missing", "request_exception", "other_exception"}

PmName == cameras[pm_i].name

\* for cam in config['cameras']: ... name = cam['name']; ip = cam['ip']
PmFor ==
    /\ pm_pc = "for"
    /\ IF pm_i > Len(cameras)
       THEN /\ pm_pc' = "sleep"
            /\ UNCHANGED <<pm_i, pm_log>>
       ELSE IF ~Enabled(cameras[pm_i])
       THEN /\ pm_i' = pm_i + 1
            /\ UNCHANGED <<pm_pc, pm_log>>
       ELSE IF ~cameras[pm_i].has_ip
       THEN /\ pm_pc' = "cycle_error"           \* KeyError: 'ip'
            /\ UNCHANGED <<pm_i, pm_log>>
       ELSE /\ pm_pc' = "probe"
            /\ pm_log' = [PmIdleLog EXCEPT
                            !.name = PmName,
                            !.before = Get(motion_state, PmName, FALSE),
                            !.lm_before = Get(camera_health, PmName,
                                              [last_motion |-> Absent]).last_motion]
            /\ UNCHANGED pm_i
    /\ UNCHANGED <<is_motion, prev_motion, pm_probed, files>>
    /\ UNCHANGED <<confVars, storeVars, now, hcVars, relayVars, apiVars, camVars>>

\* response = requests.get(motion_url, ...); data = response.json();
\* is_motion = data.get('motion', False)
PmProbe ==
    /\ pm_pc = "probe"
    /\ \E r \in MotionProbeResults :
        /\ pm_probed' = pm_probed \cup {PmName}
        /\ CASE r \in {"true", "false", "missing"} ->
                  /\ is_motion' = (r = "true")
                  /\ pm_pc' = "read_prev"
                  /\ pm_log' = [pm_log EXCEPT !.result = IF r = "true" THEN "true" ELSE "false",
                                              !.t_probe = now]
             [] r = "request_exception" ->
                  /\ pm_pc' = "except_request"
                  /\ pm_log' = [pm_log EXCEPT !.result = "fail", !.t_probe = now]
                  /\ UNCHANGED is_motion
             [] r = "other_exception" ->
                  /\ pm_pc' = "except_other"
                  /\ pm_log' = [pm_log EXCEPT !.result = "fail", !.t_probe = now]
                  /\ UNCHANGED is_motion
    /\ UNCHANGED <<pm_i, prev_motion, files>>
    /\ UNCHANGED <<confVars, storeVars, now, hcVars, relayVars, apiVars, camVars>>

\* prev_motion = motion_state.get(name, False)
PmReadPrev ==
    /\ pm_pc = "read_prev"
    /\ prev_motion' = Get(motion_state, PmName, FALSE)
    /\ pm_pc' = "write_state"
    /\ UNCHANGED <<pm_i, is_motion, pm_log, pm_probed, files>>
    /\ UNCHANGED <<confVars, storeVars, now, hcVars, relayVars, apiVars, camVars>>

\* PmWriteState that stores the flag only when it rises
PmWriteState_OnlyRising ==
    /\ pm_pc = "write_state"
    /\ motion_state' = Put(motion_state, PmName, is_motion \/ prev_motion)
    /\ pm_pc' = IF is_motion THEN "first_motion" ELSE "record"
    /\ UNCHANGED <<pm_i, is_motion, prev_motion, pm_log, pm_probed, files>>
    /\ UNCHANGED <<confVars, camera_health, now, hcVars, relayVars, apiVars, camVars>>

\* motion_state[name] = is_motion; if is_motion: ...
PmWriteState ==
    /\ pm_pc = "write_state"
    /\ motion_state' = Put(motion_state, PmName, is_motion)
    /\ pm_pc' = IF is_motion THEN "first_motion" ELSE "record"
    /\ UNCHANGED <<pm_i, is_motion, prev_motion, pm_log, pm_probed, files>>
    /\ UNCHANGED <<confVars, camera_health, now, hcVars, relayVars, apiVars, camVars>>

\* if 'last_motion' not in camera_health[name]:
\*     camera_health[name]['last_motion'] = time.time()
PmFirstMotion ==
    /\ pm_pc = "first_motion"
    /\ IF PmName \notin DOMAIN camera_health
       THEN /\ pm_pc' = "except_other"          \* KeyError
            /\ UNCHANGED camera_health
       ELSE /\ pm_pc' = "last_motion"
            /\ camera_health' =
                 IF camera_health[PmName].last_motion = Absent
                 THEN [camera_health EXCEPT ![PmName].last_motion = now]
                 ELSE camera_health
    /\ UNCHANGED <<pm_i, is_motion, prev_motion, pm_log, pm_probed, files>>
    /\ UNCHANGED <<confVars, motion_state, now, hcVars, relayVars, apiVars, camVars>>

\* PmLastMotion without the second assignment: only the first detection is stamped
PmLastMotion_FirstOnly ==
    /\ pm_pc = "last_motion"
    /\ pm_pc' = "record"
    /\ UNCHANGED <<pm_i, is_motion, prev_motion, pm_log, pm_probed, files>>
    /\ UNCHANGED <<confVars, storeVars, now, hcVars, relayVars, apiVars, camVars>>

\* camera_health[name]['last_motion'] = time.time()
PmLastMotion ==
    /\ pm_pc = "last_motion"
    /\ camera_health' = [camera_health EXCEPT ![PmName].last_motion = now]
    /\ pm_pc' = "record"
    /\ UNCHANGED <<pm_i, is_motion, prev_motion, pm_log, pm_probed, files>>
    /\ UNCHANGED <<confVars, motion_state, now, hcVars, relayVars, apiVars, camVars>>

\* SnapshotWanted without the test of prev_motion
SnapshotWanted_EveryMotion ==
    /\ recording.enabled /\ is_motion
    /\ recording.snapshot_on_motion

\* SnapshotWanted without the test of recording.snapshot_on_motion
SnapshotWanted_IgnoresSwitch ==
    /\ recording.enabled /\ is_motion
    /\ ~prev_motion

\* the condition under which the snapshot is fetched
SnapshotWanted ==
    /\ recording.enabled /\ is_motion
    /\ recording.snapshot_on_motion /\ ~prev_motion

\* SnapshotStamp with a format that carries the fraction of the second
SnapshotStamp_WithFraction == now

\* datetime.now().strftime('%Y%m%d_%H%M%S'): the date and time in whole seconds
SnapshotStamp == now \div TicksPerSecond

\* the latest stamp among the snapshot files of a camera
LatestStamp(name) ==
    LET stamps == { f[2] : f \in { g \in files : g[1] = name } }
    IN  IF stamps = {} THEN Absent
        ELSE CHOOSE t \in stamps : \A u \in stamps : u <= t

\* the outcomes of requests.get(snapshot_url).content and filename.write_bytes
SnapshotResults == {"ok", "fetch_failed", "write_failed"}

\* PmRecord without the try around the snapshot: a failure reaches the
\* handlers of the poll
PmRecord_FailureEscapes ==
    /\ pm_pc = "record"
    /\ IF SnapshotWanted
       THEN \E r \in SnapshotResults :
              /\ files' = IF r = "ok" THEN files \cup {<<PmName, SnapshotStamp>>}
                                      ELSE files
              /\ pm_log' = [pm_log EXCEPT
                              !.attempts = @ + 1,
                              !.writes = IF r = "ok" THEN @ + 1 ELSE @,
                              !.prev_stamp = IF r = "ok" THEN LatestStamp(PmName) ELSE @,
                              !.stamp = IF r = "ok" THEN SnapshotStamp ELSE @,
                              !.done = (r = "ok")]
              /\ pm_pc' = IF r = "ok" THEN "for" ELSE "except_other"
              /\ pm_i' = IF r = "ok" THEN pm_i + 1 ELSE pm_i
       ELSE /\ pm_log' = [pm_log EXCEPT !.done = TRUE]
            /\ pm_pc' = "for"
            /\ pm_i' = pm_i + 1
            /\ UNCHANGED files
    /\ UNCHANGED <<is_motion, prev_motion, pm_probed>>
    /\ UNCHANGED <<confVars, storeVars, now, hcVars, relayVars, apiVars, camVars>>

\* if config['recording']['enabled'] and is_motion: ... save the snapshot
PmRecord ==
    /\ pm_pc = "record"
    /\ IF SnapshotWanted
       THEN \E r \in SnapshotResults :
              /\ files' = IF r = "ok" THEN files \cup {<<PmName, SnapshotStamp>>}
                                      ELSE files
              /\ pm_log' = [pm_log EXCEPT
                              !.attempts = @ + 1,
                              !.writes = IF r = "ok" THEN @ + 1 ELSE @,
                              !.prev_stamp = IF r = "ok" THEN LatestStamp(PmName) ELSE @,
                              !.stamp = IF r = "ok" THEN SnapshotStamp ELSE @,
                              !.done = TRUE]
       ELSE /\ pm_log' = [pm_log EXCEPT !.done = TRUE]
            /\ UNCHANGED files
    /\ pm_pc' = "for"
    /\ pm_i' = pm_i + 1
    /\ UNCHANGED <<is_motion, prev_motion, pm_probed>>
    /\ UNCHANGED <<confVars, storeVars, now, hcVars, relayVars, apiVars, camVars>>

\* PmExcept with a handler that only logs
PmExcept_OnlyLogs ==
    /\ pm_pc \in {"except_request", "except_other"}
    /\ pm_log' = [pm_log EXCEPT !.done = TRUE]
    /\ pm_pc' = "for"
    /\ pm_i' = pm_i + 1
    /\ UNCHANGED <<is_motion, prev_motion, pm_probed, files>>
    /\ UNCHANGED <<confVars, storeVars, now, hcVars, relayVars, apiVars, camVars>>

\* except requests.RequestException / except Exception: motion_state[name] = False
PmExcept ==
    /\ pm_pc \in {"except_request", "except_other"}
    /\ motion_state' = Put(motion_state, PmName, FALSE)
    /\ pm_log' = [pm_log EXCEPT !.done = TRUE]
    /\ pm_pc' = "for"
    /\ pm_i' = pm_i + 1
    /\ UNCHANGED <<is_motion, prev_motion, pm_probed, files>>
    /\ UNCHANGED <<confVars, camera_health, now, hcVars, relayVars, apiVars, camVars>>

\* time.sleep(config['polling']['motion_interval']), then the next cycle
PmSleep ==
    /\ pm_pc = "sleep"
    /\ pm_pc' = "for"
    /\ pm_i' = 1
    /\ pm_probed' = {}
    /\ UNCHANGED <<is_motion, prev_motion, pm_log, files>>
    /\ UNCHANGED <<confVars, storeVars, now, hcVars, relayVars, apiVars, camVars>>

\* PmCycleError with a handler that leaves the while loop
PmCycleError_Exits ==
    /\ pm_pc = "cycle_error"
    /\ pm_pc' = "exited"
    /\ UNCHANGED <<pm_i, pm_probed, is_motion, prev_motion, pm_log, files>>
    /\ UNCHANGED <<confVars, storeVars, now, hcVars, relayVars, apiVars, camVars>>

\* except Exception as e: logger.error(...); time.sleep(5), then the next cycle
PmCycleError ==
    /\ pm_pc = "cycle_error"
    /\ pm_pc' = "for"
    /\ pm_i' = 1
    /\ pm_probed' = {}
    /\ UNCHANGED <<is_motion, prev_motion, pm_log, files>>
    /\ UNCHANGED <<confVars, storeVars, now, hcVars, relayVars, apiVars, camVars>>

poll_motion ==
    \/ PmFor \/ PmProbe \/ PmReadPrev \/ PmWriteState \/ PmFirstMotion
    \/ PmLastMotion \/ PmRecord \/ PmExcept \/ PmSleep \/ PmCycleError

HcIdleLog ==
    [name |-> "", reading |-> 0, raised |-> FALSE, up_before |-> Absent, lc_before |-> 0,
     t_probe |-> 0, done |-> FALSE]

(***************************************************************************)
(* health_check                                                            *)
(***************************************************************************)
\* the status codes a camera answers with, when the probe does not raise
HealthProbeResults == {200, 204, 404, 503}

HcName == cameras[hc_i].name

\* camera_health[name].get('uptime', 0)
UptimeOf(name) ==
    IF camera_health[name].uptime = Absent THEN 0 ELSE camera_health[name].uptime

\* for cam in config['cameras']: ... name = cam['name']; ip = cam['ip']
HcFor ==
    /\ hc_pc = "for"
    /\ IF hc_i > Len(cameras)
       THEN /\ hc_pc' = "sleep"
            /\ UNCHANGED <<hc_i, hc_log>>
       ELSE IF ~Enabled(cameras[hc_i])
       THEN /\ hc_i' = hc_i + 1
            /\ UNCHANGED <<hc_pc, hc_log>>
       ELSE IF ~cameras[hc_i].has_ip
       THEN /\ hc_pc' = "cycle_error"           \* KeyError: 'ip'
            /\ UNCHANGED <<hc_i, hc_log>>
       ELSE /\ hc_pc' = "init"
            /\ hc_log' = [HcIdleLog EXCEPT !.name = HcName]
            /\ UNCHANGED hc_i
    /\ UNCHANGED <<status_code, hc_tmp, hc_probed>>
    /\ UNCHANGED <<confVars, storeVars, now, pmVars, relayVars, apiVars, camVars>>

\* if name not in camera_health: camera_health[name] = {...}
HcInitRecord ==
    /\ hc_pc = "init"
    /\ camera_health' =
         IF HcName \in DOMAIN camera_health
         THEN camera_health
         ELSE Put(camera_health, HcName,
                  [online |-> FALSE, last_check |-> 0, uptime |-> 0,
                   last_motion |-> Absent])
    /\ hc_log' = [hc_log EXCEPT
                    !.up_before = Get(camera_health, HcName, [uptime |-> 0]).uptime,
                    !.lc_before = Get(camera_health, HcName, [last_check |-> 0]).last_check]
    /\ hc_pc' = "probe"
    /\ UNCHANGED <<hc_i, status_code, hc_tmp, hc_probed>>
    /\ UNCHANGED <<confVars, motion_state, now, pmVars, relayVars, apiVars, camVars>>

\* response = requests.get(url, timeout=..., stream=True)
HcProbe ==
    /\ hc_pc = "probe"
    /\ hc_probed' = hc_probed \cup {HcName}
    /\ \/ \E r \in HealthProbeResults :
            /\ r = 200 => UptimeOf(HcName) < MaxUptimeChecks * HealthCheckInterval
            /\ status_code' = r
            /\ hc_log' = [hc_log EXCEPT !.reading = r, !.t_probe = now]
            /\ hc_pc' = "set_online"
       \/ /\ hc_log' = [hc_log EXCEPT !.raised = TRUE, !.t_probe = now]
          /\ hc_pc' = "except_online"
          /\ UNCHANGED status_code
    /\ UNCHANGED <<hc_i, hc_tmp>>
    /\ UNCHANGED <<confVars, storeVars, now, pmVars, relayVars, apiVars, camVars>>

\* HcSetOnline that stores a record rebuilt from the health fields
HcSetOnline_WholeRecord ==
    /\ hc_pc = "set_online"
    /\ camera_health' =
         Put(camera_health, HcName,
             [online |-> (status_code = 200),
              last_check |-> camera_health[HcName].last_check,
              uptime |-> camera_health[HcName].uptime,
              last_motion |-> Absent])
    /\ hc_pc' = "set_last_check"
    /\ UNCHANGED <<hc_i, status_code, hc_tmp, hc_log, hc_probed>>
    /\ UNCHANGED <<confVars, motion_state, now, pmVars, relayVars, apiVars, camVars>>

\* HcSetOnline taking every response for a reachable camera
HcSetOnline_AnyResponse ==
    /\ hc_pc = "set_online"
    /\ camera_health' = [camera_health EXCEPT ![HcName].online = TRUE]
    /\ hc_pc' = "set_last_check"
    /\ UNCHANGED <<hc_i, status_code, hc_tmp, hc_log, hc_probed>>
    /\ UNCHANGED <<confVars, motion_state, now, pmVars, relayVars, apiVars, camVars>>

\* camera_health[name]['online'] = response.status_code == 200
HcSetOnline ==
    /\ hc_pc = "set_online"
    /\ camera_health' = [camera_health EXCEPT ![HcName].online = (status_code = 200)]
    /\ hc_pc' = "set_last_check"
    /\ UNCHANGED <<hc_i, status_code, hc_tmp, hc_log, hc_probed>>
    /\ UNCHANGED <<confVars, motion_state, now, pmVars, relayVars, apiVars, camVars>>

\* HcSetLastCheck that stamps the check only when the camera was found online
HcSetLastCheck_OnlyOnline ==
    /\ hc_pc = "set_last_check"
    /\ camera_health' =
         IF camera_health[HcName].online
         THEN [camera_health EXCEPT ![HcName].last_check = now]
         ELSE camera_health
    /\ hc_pc' = "if_online"
    /\ UNCHANGED <<hc_i, status_code, hc_tmp, hc_log, hc_probed>>
    /\ UNCHANGED <<confVars, motion_state, now, pmVars, relayVars, apiVars, camVars>>

\* camera_health[name]['last_check'] = time.time()
HcSetLastCheck ==
    /\ hc_pc = "set_last_check"
    /\ camera_health' = [camera_health EXCEPT ![HcName].last_check = now]
    /\ hc_pc' = "if_online"
    /\ UNCHANGED <<hc_i, status_code, hc_tmp, hc_log, hc_probed>>
    /\ UNCHANGED <<confVars, motion_state, now, pmVars, relayVars, apiVars, camVars>>

\* if camera_health[name]['online']: <read> camera_health[name].get('uptime', 0) + interval
HcIfOnline ==
    /\ hc_pc = "if_online"
    /\ IF camera_health[HcName].online
       THEN /\ hc_tmp' = UptimeOf(HcName) + HealthCheckInterval
            /\ hc_pc' = "add_uptime"
            /\ UNCHANGED <<hc_i, hc_log>>
       ELSE /\ hc_pc' = "for"
            /\ hc_i' = hc_i + 1
            /\ hc_log' = [hc_log EXCEPT !.done = TRUE]
            /\ UNCHANGED hc_tmp
    /\ UNCHANGED <<status_code, hc_probed>>
    /\ UNCHANGED <<confVars, storeVars, now, pmVars, relayVars, apiVars, camVars>>

\* camera_health[name]['uptime'] = <the sum read>
HcAddUptime ==
    /\ hc_pc = "add_uptime"
    /\ camera_health' = [camera_health EXCEPT ![HcName].uptime = hc_tmp]
    /\ hc_pc' = "for"
    /\ hc_i' = hc_i + 1
    /\ hc_log' = [hc_log EXCEPT !.done = TRUE]
    /\ UNCHANGED <<status_code, hc_tmp, hc_probed>>
    /\ UNCHANGED <<confVars, motion_state, now, pmVars, relayVars, apiVars, camVars>>

\* except Exception: camera_health[name]['online'] = False
HcExceptOnline ==
    /\ hc_pc = "except_online"
    /\ camera_health' = [camera_health EXCEPT ![HcName].online = FALSE]
    /\ hc_pc' = "except_uptime"
    /\ UNCHANGED <<hc_i, status_code, hc_tmp, hc_log, hc_probed>>
    /\ UNCHANGED <<confVars, motion_state, now, pmVars, relayVars, apiVars, camVars>>

\* except Exception: camera_health[name]['uptime'] = 0
HcExceptUptime ==
    /\ hc_pc = "except_uptime"
    /\ camera_health' = [camera_health EXCEPT ![HcName].uptime = 0]
    /\ hc_pc' = "for"
    /\ hc_i' = hc_i + 1
    /\ hc_log' = [hc_log EXCEPT !.done = TRUE]
    /\ UNCHANGED <<status_code, hc_tmp, hc_probed>>
    /\ UNCHANGED <<confVars, motion_state, now, pmVars, relayVars, apiVars, camVars>>

\* time.sleep(config['polling']['health_check_interval']), then the next cycle
HcSleep ==
    /\ hc_pc = "sleep"
    /\ hc_pc' = "for"
    /\ hc_i' = 1
    /\ hc_probed' = {}
    /\ UNCHANGED <<status_code, hc_tmp, hc_log>>
    /\ UNCHANGED <<confVars, storeVars, now, pmVars, relayVars, apiVars, camVars>>

\* except Exception as e: logger.error(...); time.sleep(10), then the next cycle
HcCycleError ==
    /\ hc_pc = "cycle_error"
    /\ hc_pc' = "for"
    /\ hc_i' = 1
    /\ hc_probed' = {}
    /\ UNCHANGED <<status_code, hc_tmp, hc_log>>
    /\ UNCHANGED <<confVars, storeVars, now, pmVars, relayVars, apiVars, camVars>>

health_check ==
    \/ HcFor \/ HcInitRecord \/ HcProbe \/ HcSetOnline \/ HcSetLastCheck
    \/ HcIfOnline \/ HcAddUptime \/ HcExceptOnline \/ HcExceptUptime
    \/ HcSleep \/ HcCycleError

(***************************************************************************)
(* stream(name) and gen_frames: one relay, serving one viewer              *)
(***************************************************************************)
\* history of the relay: the camera it serves, the failed reads in a row
\* since the last successful read or connection attempt, and what the last
\* step did
RlIdleLog ==
    [name |-> "", fails |-> 0, event |-> "none",
     read |-> "none", encode |-> "none",        \* the iteration in progress / last finished
     attempted |-> FALSE,                       \* a connection attempt was made
     slept |-> FALSE,                           \* a backoff sleep since the last attempt
     hot |-> FALSE]                             \* an attempt followed one with no sleep between

\* the names a viewer may ask for
RequestNames == {CameraNames[1], CameraNames[2], "Nowhere"}

\* cam = next((c for c in config['cameras'] if c['name'] == name), None)
FindCamera(name) == { k \in 1..Len(cameras) : cameras[k].name = name }

\* stream(name): 404 when no camera has the name, else a new generator
\* gen_frames(cam['ip'], name); cap = None; retry_count = 0
Stream ==
    /\ rl_pc = "idle"
    /\ \E name \in RequestNames :
         IF FindCamera(name) = {} \/ \E k \in FindCamera(name) : ~cameras[k].has_ip
         THEN UNCHANGED relayVars
         ELSE /\ rl_pc' = "top"
              /\ cap' = "none"
              /\ retry_count' = 0
              /\ rl_log' = [RlIdleLog EXCEPT !.name = name]
    /\ UNCHANGED <<confVars, storeVars, now, pmVars, hcVars, apiVars, camVars>>

\* RlConnect that leaves retry_count as it is
RlConnect_KeepsCount ==
    /\ rl_pc = "top"
    /\ IF cap \in {"none", "unopened"}
       THEN /\ \E opened \in BOOLEAN : cap' = IF opened THEN "open" ELSE "unopened"
            /\ rl_log' = [rl_log EXCEPT !.fails = 0, !.event = "connect",
                                        !.read = "none", !.encode = "none",
                                        !.attempted = TRUE, !.slept = FALSE,
                                        !.hot = (rl_log.attempted /\ ~rl_log.slept)]
       ELSE /\ rl_log' = [rl_log EXCEPT !.read = "none", !.encode = "none"]
            /\ UNCHANGED cap
    /\ UNCHANGED retry_count
    /\ rl_pc' = "read"
    /\ UNCHANGED <<confVars, storeVars, now, pmVars, hcVars, apiVars, camVars>>

\* RlConnect that records a camera it could open as online
RlConnect_MarksOnline ==
    /\ rl_pc = "top"
    /\ IF cap \in {"none", "unopened"}
       THEN /\ \E opened \in BOOLEAN :
                /\ cap' = IF opened THEN "open" ELSE "unopened"
                /\ camera_health' =
                     IF rl_log.name \in DOMAIN camera_health
                     THEN [camera_health EXCEPT ![rl_log.name].online = opened]
                     ELSE camera_health
            /\ retry_count' = 0
            /\ rl_log' = [rl_log EXCEPT !.fails = 0, !.event = "connect",
                                        !.read = "none", !.encode = "none",
                                        !.attempted = TRUE, !.slept = FALSE,
                                        !.hot = (rl_log.attempted /\ ~rl_log.slept)]
       ELSE /\ rl_log' = [rl_log EXCEPT !.read = "none", !.encode = "none"]
            /\ UNCHANGED <<cap, retry_count, camera_health>>
    /\ rl_pc' = "read"
    /\ UNCHANGED <<confVars, motion_state, now, pmVars, hcVars, apiVars, camVars>>

\* if cap is None or not cap.isOpened(): cap = cv2.VideoCapture(stream_url);
\* retry_count = 0
RlConnect ==
    /\ rl_pc = "top"
    /\ IF cap \in {"none", "unopened"}
       THEN /\ \E opened \in BOOLEAN : cap' = IF opened THEN "open" ELSE "unopened"
            /\ retry_count' = 0
            /\ rl_log' = [rl_log EXCEPT !.fails = 0, !.event = "connect",
                                        !.read = "none", !.encode = "none",
                                        !.attempted = TRUE, !.slept = FALSE,
                                        !.hot = (rl_log.attempted /\ ~rl_log.slept)]
       ELSE /\ rl_log' = [rl_log EXCEPT !.read = "none", !.encode = "none"]
            /\ UNCHANGED <<cap, retry_count>>
    /\ rl_pc' = "read"
    /\ UNCHANGED <<confVars, storeVars, now, pmVars, hcVars, apiVars, camVars>>

\* the outcomes of cap.read(): a frame, ret = False, or an exception
ReadResults == {"frame", "no_frame", "exception"}

\* retry_count > max_retries
RetriesExhausted(count) == count > max_retries

\* ret, frame = cap.read(); if not ret: retry_count += 1; ... continue
RlRead ==
    /\ rl_pc = "read"
    /\ \E r \in ReadResults :
        /\ r = "frame" => cap = "open"
        /\ CASE r = "frame" ->
                  /\ rl_pc' = "encode"
                  /\ rl_log' = [rl_log EXCEPT !.fails = 0, !.event = "frame",
                                              !.read = "frame"]
                  /\ UNCHANGED <<cap, retry_count>>
             [] r = "no_frame" ->
                  /\ retry_count' = retry_count + 1
                  /\ IF RetriesExhausted(retry_count + 1)
                     THEN /\ cap' = "none"         \* cap.release(); cap = None; sleep(1)
                          /\ rl_log' = [rl_log EXCEPT !.fails = @ + 1, !.event = "teardown",
                                                      !.read = "no_frame", !.slept = TRUE]
                     ELSE /\ UNCHANGED cap
                          /\ rl_log' = [rl_log EXCEPT !.fails = @ + 1, !.event = "retry",
                                                      !.read = "no_frame"]
                  /\ rl_pc' = "top"
             [] r = "exception" ->
                  /\ cap' = "none"                 \* cap.release(); cap = None; sleep(2)
                  /\ rl_log' = [rl_log EXCEPT !.event = "error", !.read = "exception",
                                              !.slept = TRUE]
                  /\ rl_pc' = "top"
                  /\ UNCHANGED retry_count
    /\ UNCHANGED <<confVars, storeVars, now, pmVars, hcVars, apiVars, camVars>>

\* the outcomes of cv2.resize and cv2.imencode: a buffer, ret = False, an exception
EncodeResults == {"encoded", "not_encoded", "exception"}

\* RlEncode that sends the viewer a chunk for a frame it could not encode
RlEncode_EmitsUnencoded ==
    /\ rl_pc = "encode"
    /\ \E r \in EncodeResults :
         CASE r = "encoded" ->
                  /\ rl_pc' = "yield"
                  /\ rl_log' = [rl_log EXCEPT !.event = "chunk", !.encode = "encoded"]
                  /\ UNCHANGED cap
           [] r = "not_encoded" ->
                  /\ rl_pc' = "yield"
                  /\ rl_log' = [rl_log EXCEPT !.event = "chunk", !.encode = "not_encoded"]
                  /\ UNCHANGED cap
           [] r = "exception" ->
                  /\ cap' = "none"
                  /\ rl_log' = [rl_log EXCEPT !.event = "error", !.encode = "exception",
                                              !.slept = TRUE]
                  /\ rl_pc' = "top"
    /\ UNCHANGED retry_count
    /\ UNCHANGED <<confVars, storeVars, now, pmVars, hcVars, apiVars, camVars>>

\* resize, ret, buffer = cv2.imencode(...); if not ret: continue; yield ...
RlEncode ==
    /\ rl_pc = "encode"
    /\ \E r \in EncodeResults :
         CASE r = "encoded" ->
                  /\ rl_pc' = "yield"
                  /\ rl_log' = [rl_log EXCEPT !.event = "chunk", !.encode = "encoded"]
                  /\ UNCHANGED cap
           [] r = "not_encoded" ->
                  /\ rl_pc' = "top"
                  /\ rl_log' = [rl_log EXCEPT !.event = "skip", !.encode = "not_encoded"]
                  /\ UNCHANGED cap
           [] r = "exception" ->
                  /\ cap' = "none"                 \* cap.release(); cap = None; sleep(2)
                  /\ rl_log' = [rl_log EXCEPT !.event = "error", !.encode = "exception",
                                              !.slept = TRUE]
                  /\ rl_pc' = "top"
    /\ UNCHANGED retry_count
    /\ UNCHANGED <<confVars, storeVars, now, pmVars, hcVars, apiVars, camVars>>

\* the server asks for the next chunk: the generator goes on after the yield
RlResume ==
    /\ rl_pc = "yield"
    /\ rl_pc' = "top"
    /\ rl_log' = [rl_log EXCEPT !.event = "resumed"]
    /\ UNCHANGED <<cap, retry_count>>
    /\ UNCHANGED <<confVars, storeVars, now, pmVars, hcVars, apiVars, camVars>>

\* the viewer is gone: the server closes the generator, GeneratorExit is
\* raised at the yield, no handler of gen_frames catches it (it is no
\* Exception) and no statement of gen_frames releases cap on this path; the
\* capture is closed only if the runtime finalises the object
RlClose ==
    /\ rl_pc = "yield"
    /\ rl_pc' = "closed"
    /\ \E finalised \in BOOLEAN : cap' = IF finalised THEN "none" ELSE cap
    /\ rl_log' = [rl_log EXCEPT !.event = "closed"]
    /\ UNCHANGED retry_count
    /\ UNCHANGED <<confVars, storeVars, now, pmVars, hcVars, apiVars, camVars>>

gen_frames == RlConnect \/ RlRead \/ RlEncode \/ RlResume \/ RlClose

(***************************************************************************)
(* The read API: status, api_cameras, api_health.  A handler evaluates the *)
(* values of its response one after the other; a record of camera_health   *)
(* is put into the response by reference and read when jsonify serialises  *)
(* the response.                                                           *)
(***************************************************************************)
NoResponse ==
    [route |-> "none", code |-> 0, motion |-> <<>>, health |-> <<>>,
     last_motion |-> Absent, cameras_count |-> 0, cameras_online |-> 0]

\* camera_health.get(name, {'online': False}), as jsonify reads it
HealthOf(name) ==
    Get(camera_health, name,
        [online |-> FALSE, last_check |-> Absent, uptime |-> Absent, last_motion |-> Absent])

\* StatusMotion with a lookup that stores the default it returns
StatusMotion_SetDefault ==
    /\ api_pc = "idle"
    /\ \E name \in RequestNames :
        /\ api_name' = name
        /\ motion_state' = Put(motion_state, name, Get(motion_state, name, FALSE))
        /\ api_resp' = [NoResponse EXCEPT !.route = "status",
                                          !.motion = <<Get(motion_state, name, FALSE)>>]
    /\ api_pc' = "status_last_motion"
    /\ UNCHANGED api_i
    /\ UNCHANGED <<confVars, camera_health, now, pmVars, hcVars, relayVars, camVars>>

\* status(name): 'motion': motion_state.get(name, False)
StatusMotion ==
    /\ api_pc = "idle"
    /\ \E name \in RequestNames :
        /\ api_name' = name
        /\ api_resp' = [NoResponse EXCEPT !.route = "status",
                                          !.motion = <<Get(motion_state, name, FALSE)>>]
    /\ api_pc' = "status_last_motion"
    /\ UNCHANGED api_i
    /\ UNCHANGED <<confVars, storeVars, now, pmVars, hcVars, relayVars, camVars>>

\* 'health': camera_health.get(name, {'online': False}) (a reference),
\* 'last_motion': camera_health.get(name, {}).get('last_motion')
StatusLastMotion ==
    /\ api_pc = "status_last_motion"
    /\ api_resp' = [api_resp EXCEPT !.last_motion = HealthOf(api_name).last_motion]
    /\ api_pc' = "status_jsonify"
    /\ UNCHANGED <<api_name, api_i>>
    /\ UNCHANGED <<confVars, storeVars, now, pmVars, hcVars, relayVars, camVars>>

\* return jsonify({...}): the health record is read now
StatusReturn ==
    /\ api_pc = "status_jsonify"
    /\ api_resp' = [api_resp EXCEPT !.code = 200, !.health = <<HealthOf(api_name)>>]
    /\ api_pc' = "sent"
    /\ UNCHANGED <<api_name, api_i>>
    /\ UNCHANGED <<confVars, storeVars, now, pmVars, hcVars, relayVars, camVars>>

status == StatusMotion \/ StatusLastMotion \/ StatusReturn

\* api_cameras(): cameras_data = []
ApiCamerasBegin ==
    /\ api_pc = "idle"
    /\ api_pc' = "cameras_for"
    /\ api_i' = 1
    /\ api_name' = ""
    /\ api_resp' = [NoResponse EXCEPT !.route = "api_cameras"]
    /\ UNCHANGED <<confVars, storeVars, now, pmVars, hcVars, relayVars, camVars>>

\* for cam in config['cameras']: if not enabled: continue;
\* cameras_data.append({'name', 'ip': cam['ip'], 'motion': motion_state.get(...),
\* 'health': camera_health.get(...)})
ApiCamerasFor ==
    /\ api_pc = "cameras_for"
    /\ IF api_i > Len(cameras)
       THEN /\ api_pc' = "cameras_jsonify"
            /\ UNCHANGED <<api_i, api_name, api_resp>>
       ELSE IF ~Enabled(cameras[api_i])
       THEN /\ api_i' = api_i + 1
            /\ UNCHANGED <<api_pc, api_name, api_resp>>
       ELSE IF ~cameras[api_i].has_ip
       THEN /\ api_pc' = "sent"                 \* KeyError: 'ip', answered with 500
            /\ api_resp' = [NoResponse EXCEPT !.route = "api_cameras", !.code = 500]
            /\ UNCHANGED <<api_i, api_name>>
       ELSE /\ api_resp' = [api_resp EXCEPT
                              !.motion = Append(@, Get(motion_state, cameras[api_i].name, FALSE))]
            /\ api_i' = api_i + 1
            /\ UNCHANGED <<api_pc, api_name>>
    /\ UNCHANGED <<confVars, storeVars, now, pmVars, hcVars, relayVars, camVars>>

\* return jsonify(cameras_data): the health records are read now
ApiCamerasReturn ==
    /\ api_pc = "cameras_jsonify"
    /\ api_resp' =
         [api_resp EXCEPT
            !.code = 200,
            !.health = [k \in 1..Cardinality(EnabledNames) |->
                          HealthOf(SelectSeq(cameras, Enabled)[k].name)]]
    /\ api_pc' = "sent"
    /\ UNCHANGED <<api_name, api_i>>
    /\ UNCHANGED <<confVars, storeVars, now, pmVars, hcVars, relayVars, camVars>>

api_cameras == ApiCamerasBegin \/ ApiCamerasFor \/ ApiCamerasReturn

\* the keys of camera_health in the order of iteration: the order in which
\* main() inserted them, that of config['cameras']
HealthKeys ==
    SelectSeq([k \in 1..Len(cameras) |-> cameras[k].name],
              LAMBDA n : n \in DOMAIN camera_health)

\* api_health(): 'cameras_count': len([c for c in config['cameras'] if c.get('enabled', True)])
ApiHealthBegin ==
    /\ api_pc = "idle"
    /\ api_pc' = "health_sum"
    /\ api_i' = 1
    /\ api_name' = ""
    /\ api_resp' = [NoResponse EXCEPT !.route = "api_health",
                                      !.cameras_count = Cardinality(EnabledNames)]
    /\ UNCHANGED <<confVars, storeVars, now, pmVars, hcVars, relayVars, camVars>>

\* ApiHealthSum that adds a record's count of successful checks instead of 1
ApiHealthSum_CountsChecks ==
    /\ api_pc = "health_sum"
    /\ IF api_i > Len(HealthKeys)
       THEN /\ api_pc' = "health_jsonify"
            /\ UNCHANGED <<api_i, api_resp>>
       ELSE /\ api_resp' = [api_resp EXCEPT
                              !.cameras_online =
                                 IF camera_health[HealthKeys[api_i]].online
                                 THEN @ + (camera_health[HealthKeys[api_i]].uptime
                                             \div HealthCheckInterval)
                                 ELSE @]
            /\ api_i' = api_i + 1
            /\ UNCHANGED api_pc
    /\ UNCHANGED api_name
    /\ UNCHANGED <<confVars, storeVars, now, pmVars, hcVars, relayVars, camVars>>

\* 'cameras_online': sum(1 for h in camera_health.values() if h.get('online', False)),
\* one record in a step
ApiHealthSum ==
    /\ api_pc = "health_sum"
    /\ IF api_i > Len(HealthKeys)
       THEN /\ api_pc' = "health_jsonify"
            /\ UNCHANGED <<api_i, api_resp>>
       ELSE /\ api_resp' = [api_resp EXCEPT
                              !.cameras_online =
                                 IF camera_health[HealthKeys[api_i]].online THEN @ + 1 ELSE @]
            /\ api_i' = api_i + 1
            /\ UNCHANGED api_pc
    /\ UNCHANGED api_name
    /\ UNCHANGED <<confVars, storeVars, now, pmVars, hcVars, relayVars, camVars>>

\* return jsonify({'status': 'ok', ...})
ApiHealthReturn ==
    /\ api_pc = "health_jsonify"
    /\ api_resp' = [api_resp EXCEPT !.code = 200]
    /\ api_pc' = "sent"
    /\ UNCHANGED <<api_name, api_i>>
    /\ UNCHANGED <<confVars, storeVars, now, pmVars, hcVars, relayVars, camVars>>

api_health == ApiHealthBegin \/ ApiHealthSum \/ ApiHealthReturn

\* the response has gone to the client; the handler's thread takes the next request
ApiDone ==
    /\ api_pc = "sent"
    /\ api_pc' = "idle"
    /\ api_name' = ""
    /\ api_i' = 0
    /\ api_resp' = NoResponse
    /\ UNCHANGED <<confVars, storeVars, now, pmVars, hcVars, relayVars, camVars>>

read_api == status \/ api_cameras \/ api_health \/ ApiDone

(***************************************************************************)
(* The camera side (main.py): connect_wifi, configure_camera,              *)
(* stream_frames, start_server and main.  One thread; the station's link   *)
(* and the clients are its environment.                                    *)
(***************************************************************************)
CwIdleLog ==
    [was_connected |-> FALSE, connects |-> 0, seen |-> FALSE, t_check |-> 0,
     result |-> "none"]

SfIdleLog == [fails |-> 0, frames |-> 0, ended |-> "none"]

\* stream_frames: the three writes of lines 68-70
HeaderSegments == <<"status_line", "content_type", "connection">>

\* FrameSegments with the payload written ahead of its Content-Length header
FrameSegments_PayloadFirst ==
    <<"boundary", "part_content_type", "payload", "content_length", "crlf">>

\* stream_frames: the five writes of lines 86-90
FrameSegments ==
    <<"boundary", "part_content_type", "content_length", "payload", "crlf">>

\* the states the station is in when main() starts
Stations ==
    { st \in [active : BOOLEAN, connected : BOOLEAN] : st.connected => st.active }

\* the camera script before main() runs
InitDevice ==
    /\ cm_pc = "main" /\ cm_time = 0 /\ deadline = 0 /\ cw_log = CwIdleLog
    /\ sensor = "unknown" /\ server_socket = "none" /\ clients = <<>>
    /\ cm_exc = "none" /\ retries = 0 /\ sf_k = 0 /\ out = <<>>
    /\ sf_log = SfIdleLog /\ cm_calls = <<>>

\* main(): ip_address = connect_wifi(WIFI_SSID, WIFI_PASSWORD)
MainConnectWifi ==
    /\ cm_pc = "main"
    /\ cm_pc' = "cw_active"
    /\ cm_calls' = Append(cm_calls, "connect_wifi")
    /\ UNCHANGED <<wifiVars, sensor, serverVars>>
    /\ UNCHANGED hubVars

\* if not station.active(): station.active(True)
CwActivate ==
    /\ cm_pc = "cw_active"
    /\ station' = [station EXCEPT !.active = TRUE]
    /\ cm_pc' = "cw_connected"
    /\ UNCHANGED <<cm_time, deadline, cw_log, sensor, serverVars, cm_calls>>
    /\ UNCHANGED hubVars

\* if station.isconnected(): ip_address = station.ifconfig()[0]; return ip_address
CwAlreadyConnected ==
    /\ cm_pc = "cw_connected"
    /\ IF station.connected
       THEN /\ cw_log' = [cw_log EXCEPT !.was_connected = TRUE, !.seen = TRUE,
                                         !.result = "ip"]
            /\ cm_pc' = "configure"
       ELSE /\ cm_pc' = "cw_connect"
            /\ UNCHANGED cw_log
    /\ UNCHANGED <<station, cm_time, deadline, sensor, serverVars, cm_calls>>
    /\ UNCHANGED hubVars

\* station.connect(ssid, password); deadline = time.time() + WIFI_CONNECT_TIMEOUT
CwConnect ==
    /\ cm_pc = "cw_connect"
    /\ cw_log' = [cw_log EXCEPT !.connects = @ + 1]
    /\ deadline' = cm_time + WIFI_CONNECT_TIMEOUT
    /\ cm_pc' = "cw_poll"
    /\ UNCHANGED <<station, cm_time, sensor, serverVars, cm_calls>>
    /\ UNCHANGED hubVars

\* while not station.isconnected():
CwPoll ==
    /\ cm_pc = "cw_poll"
    /\ cw_log' = [cw_log EXCEPT !.seen = station.connected]
    /\ cm_pc' = IF station.connected THEN "cw_return" ELSE "cw_deadline"
    /\ UNCHANGED <<station, cm_time, deadline, sensor, serverVars, cm_calls>>
    /\ UNCHANGED hubVars

\* DeadlinePassed that gives up at the deadline already
DeadlinePassed_AtDeadline == cm_time >= deadline

\* time.time() > deadline
DeadlinePassed == cm_time > deadline

\* CwDeadline whose timeout is reported and not raised: main() goes on
CwDeadline_GoesOn ==
    /\ cm_pc = "cw_deadline"
    /\ IF DeadlinePassed
       THEN /\ station' = [active |-> FALSE, connected |-> FALSE]
            /\ cw_log' = [cw_log EXCEPT !.t_check = cm_time, !.result = "oserror"]
            /\ cm_pc' = "configure"
       ELSE /\ cw_log' = [cw_log EXCEPT !.t_check = cm_time]
            /\ cm_pc' = "cw_sleep"
            /\ UNCHANGED station
    /\ UNCHANGED <<cm_time, deadline, sensor, server_socket, clients, cm_exc, retries,
                   sf_k, out, sf_log, cm_calls>>
    /\ UNCHANGED hubVars

\* if time.time() > deadline: station.active(False); raise OSError(...)
CwDeadline ==
    /\ cm_pc = "cw_deadline"
    /\ IF DeadlinePassed
       THEN /\ station' = [active |-> FALSE, connected |-> FALSE]
            /\ cw_log' = [cw_log EXCEPT !.t_check = cm_time, !.result = "oserror"]
            /\ cm_exc' = "oserror"
            /\ cm_pc' = "raised"
       ELSE /\ cw_log' = [cw_log EXCEPT !.t_check = cm_time]
            /\ cm_pc' = "cw_sleep"
            /\ UNCHANGED <<station, cm_exc>>
    /\ UNCHANGED <<cm_time, deadline, sensor, server_socket, clients, retries,
                   sf_k, out, sf_log, cm_calls>>
    /\ UNCHANGED hubVars

\* time.sleep(0.5): the clock in seconds stays or moves on
CwSleep ==
    /\ cm_pc = "cw_sleep"
    /\ \E d \in 0..1 :
        /\ cm_time + d <= deadline + MaxLateness
        /\ cm_time' = cm_time + d
    /\ cm_pc' = "cw_poll"
    /\ UNCHANGED <<station, deadline, cw_log, sensor, serverVars, cm_calls>>
    /\ UNCHANGED hubVars

\* ip_address = station.ifconfig()[0]; return ip_address
CwReturn ==
    /\ cm_pc = "cw_return"
    /\ cw_log' = [cw_log EXCEPT !.result = "ip"]
    /\ cm_pc' = "configure"
    /\ UNCHANGED <<station, cm_time, deadline, sensor, serverVars, cm_calls>>
    /\ UNCHANGED hubVars

connect_wifi ==
    \/ CwActivate \/ CwAlreadyConnected \/ CwConnect \/ CwPoll \/ CwDeadline
    \/ CwSleep \/ CwReturn

\* the environment: the station, told to connect, gets its link while
\* connect_wifi waits for it
LinkUp ==
    /\ cm_pc \in {"cw_poll", "cw_deadline", "cw_sleep"}
    /\ station.active /\ ~station.connected
    /\ station' = [station EXCEPT !.connected = TRUE]
    /\ UNCHANGED <<cm_pc, cm_time, deadline, cw_log, sensor, serverVars, cm_calls>>
    /\ UNCHANGED hubVars

\* main(): configure_camera(); try: camera.deinit() except Exception: pass
CfgDeinit ==
    /\ cm_pc = "configure"
    /\ sensor' = "off"
    /\ cm_pc' = "cfg_init"
    /\ cm_calls' = Append(cm_calls, "configure_camera")
    /\ UNCHANGED <<wifiVars, serverVars>>
    /\ UNCHANGED hubVars

\* camera.init(0, format=camera.JPEG); framesize; quality; flip; mirror
CfgInit ==
    /\ cm_pc = "cfg_init"
    /\ \E ok \in BOOLEAN :
         IF ok
         THEN /\ sensor' = "jpeg"
              /\ cm_pc' = "start_server"
              /\ UNCHANGED cm_exc
         ELSE /\ cm_exc' = "other"
              /\ cm_pc' = "raised"
              /\ UNCHANGED sensor
    /\ UNCHANGED <<wifiVars, server_socket, clients, retries, sf_k, out, sf_log, cm_calls>>
    /\ UNCHANGED hubVars

configure_camera == CfgDeinit \/ CfgInit

\* main(): start_server(); server_socket = socket.socket(); bind; listen(2)
SsListen ==
    /\ cm_pc = "start_server"
    /\ cm_calls' = Append(cm_calls, "start_server")
    /\ \E bound \in BOOLEAN :
         IF bound
         THEN /\ server_socket' = "listening"
              /\ cm_pc' = "accept"
              /\ UNCHANGED cm_exc
         ELSE /\ server_socket' = "open"        \* bind raised, before the try
              /\ cm_exc' = "oserror"
              /\ cm_pc' = "raised"
    /\ UNCHANGED <<wifiVars, sensor, clients, retries, sf_k, out, sf_log>>
    /\ UNCHANGED hubVars

\* client, addr = server_socket.accept()
SsAccept ==
    /\ cm_pc = "accept"
    /\ \/ /\ Len(clients) < MaxClients
          /\ clients' = Append(clients, [open |-> TRUE, closes |-> 0])
          /\ out' = <<>>
          /\ sf_log' = SfIdleLog
          /\ sf_k' = 1
          /\ cm_pc' = "sf_headers"
          /\ UNCHANGED cm_exc
       \/ /\ cm_exc' = "other"                  \* accept raised
          /\ cm_pc' = "ss_finally"
          /\ UNCHANGED <<clients, out, sf_log, sf_k>>
    /\ UNCHANGED <<wifiVars, sensor, server_socket, retries, cm_calls>>
    /\ UNCHANGED hubVars

\* client.write(b"HTTP/1.1 200 OK\r\n"); client.write(b"Content-Type: ...");
\* client.write(b"Connection: close\r\n\r\n"); retries = 0
SfHeaders ==
    /\ cm_pc = "sf_headers"
    /\ \E sent \in BOOLEAN :
         IF sent
         THEN /\ out' = Append(out, HeaderSegments[sf_k])
              /\ IF sf_k = Len(HeaderSegments)
                 THEN /\ retries' = 0
                      /\ cm_pc' = "sf_capture"
                      /\ UNCHANGED sf_k
                 ELSE /\ sf_k' = sf_k + 1
                      /\ UNCHANGED <<retries, cm_pc>>
              /\ UNCHANGED <<cm_exc, sf_log>>
         ELSE /\ cm_exc' = "oserror"            \* the client is gone
              /\ sf_log' = [sf_log EXCEPT !.ended = "oserror"]
              /\ cm_pc' = "ss_except"
              /\ UNCHANGED <<out, sf_k, retries>>
    /\ UNCHANGED <<wifiVars, sensor, server_socket, clients, cm_calls>>
    /\ UNCHANGED hubVars

\* CaptureRetriesExhausted that allows one more failure
CaptureRetriesExhausted_OneMore(count) == count > MAX_CAPTURE_RETRIES

\* retries >= MAX_CAPTURE_RETRIES
CaptureRetriesExhausted(count) == count >= MAX_CAPTURE_RETRIES

\* the outcomes of camera.capture(): a frame, None, or an exception
CaptureResults == {"frame", "none", "exception"}

\* frame = camera.capture(); if frame is None: retries += 1;
\* if retries >= MAX_CAPTURE_RETRIES: break; time.sleep(0.1); continue;
\* retries = 0
SfCapture ==
    /\ cm_pc = "sf_capture"
    /\ \E r \in CaptureResults :
         CASE r = "frame" ->
                /\ sf_log.frames < MaxFrames
                /\ retries' = 0
                /\ sf_log' = [sf_log EXCEPT !.fails = 0]
                /\ sf_k' = 1
                /\ cm_pc' = "sf_frame"
                /\ UNCHANGED cm_exc
           [] r = "none" ->
                /\ retries' = retries + 1
                /\ IF CaptureRetriesExhausted(retries + 1)
                   THEN /\ sf_log' = [sf_log EXCEPT !.fails = @ + 1, !.ended = "returned"]
                        /\ cm_pc' = "ss_close"
                   ELSE /\ sf_log' = [sf_log EXCEPT !.fails = @ + 1]
                        /\ cm_pc' = "sf_capture"
                /\ UNCHANGED <<sf_k, cm_exc>>
           [] r = "exception" ->
                /\ cm_exc' = "other"
                /\ sf_log' = [sf_log EXCEPT !.ended = "exception"]
                /\ cm_pc' = "ss_close"
                /\ UNCHANGED <<retries, sf_k>>
    /\ UNCHANGED <<wifiVars, sensor, server_socket, clients, out, cm_calls>>
    /\ UNCHANGED hubVars

\* client.write(BOUNDARY + b"\r\n"); client.write(b"Content-Type: image/jpeg\r\n");
\* client.write(b"Content-Length: ..."); client.write(frame); client.write(b"\r\n");
\* time.sleep(CAPTURE_INTERVAL)
SfFrame ==
    /\ cm_pc = "sf_frame"
    /\ \E sent \in BOOLEAN :
         IF sent
         THEN /\ out' = Append(out, FrameSegments[sf_k])
              /\ IF sf_k = Len(FrameSegments)
                 THEN /\ sf_log' = [sf_log EXCEPT !.frames = @ + 1]
                      /\ cm_pc' = "sf_capture"
                      /\ UNCHANGED sf_k
                 ELSE /\ sf_k' = sf_k + 1
                      /\ UNCHANGED <<sf_log, cm_pc>>
              /\ UNCHANGED cm_exc
         ELSE /\ cm_exc' = "oserror"            \* the client is gone
              /\ sf_log' = [sf_log EXCEPT !.ended = "oserror"]
              /\ cm_pc' = "ss_except"
              /\ UNCHANGED <<out, sf_k>>
    /\ UNCHANGED <<wifiVars, sensor, server_socket, clients, retries, cm_calls>>
    /\ UNCHANGED hubVars

stream_frames == SfHeaders \/ SfCapture \/ SfFrame

\* except OSError as e: print("Client disconnected:", e)
SsExcept ==
    /\ cm_pc = "ss_except"
    /\ cm_exc' = "none"
    /\ cm_pc' = "ss_close"
    /\ UNCHANGED <<wifiVars, sensor, server_socket, clients, retries, sf_k, out,
                   sf_log, cm_calls>>
    /\ UNCHANGED hubVars

\* SsClose that closes the client only after a stream that returned
SsClose_OnlyOnReturn ==
    /\ cm_pc = "ss_close"
    /\ clients' = IF sf_log.ended = "returned"
                  THEN [clients EXCEPT ![Len(clients)] =
                           [open |-> FALSE, closes |-> @.closes + 1]]
                  ELSE clients
    /\ cm_pc' = IF cm_exc = "none" THEN "accept" ELSE "ss_finally"
    /\ UNCHANGED <<wifiVars, sensor, server_socket, cm_exc, retries, sf_k, out,
                   sf_log, cm_calls>>
    /\ UNCHANGED hubVars

\* finally: client.close(); then the next accept, or the exception goes on
SsClose ==
    /\ cm_pc = "ss_close"
    /\ clients' = [clients EXCEPT ![Len(clients)] =
                      [open |-> FALSE, closes |-> @.closes + 1]]
    /\ cm_pc' = IF cm_exc = "none" THEN "accept" ELSE "ss_finally"
    /\ UNCHANGED <<wifiVars, sensor, server_socket, cm_exc, retries, sf_k, out,
                   sf_log, cm_calls>>
    /\ UNCHANGED hubVars

\* finally: server_socket.close(); the exception leaves start_server and main
SsFinally ==
    /\ cm_pc = "ss_finally"
    /\ server_socket' = "closed"
    /\ cm_pc' = "raised"
    /\ UNCHANGED <<wifiVars, sensor, clients, cm_exc, retries, sf_k, out, sf_log,
                   cm_calls>>
    /\ UNCHANGED hubVars

start_server == SsListen \/ SsAccept \/ stream_frames \/ SsExcept \/ SsClose \/ SsFinally

main == MainConnectWifi \/ connect_wifi \/ configure_camera \/ start_server

(***************************************************************************)
(* The clock                                                               *)
(***************************************************************************)
Tick ==
    /\ now < MaxClock
    /\ now' = now + 1
    /\ UNCHANGED <<confVars, storeVars, pmVars, hcVars, relayVars, apiVars, camVars>>

(***************************************************************************)
(* Initial states                                                          *)
(***************************************************************************)
InitHub0 ==
    /\ now = 1
    /\ motion_state = InitialMotionState
    /\ camera_health = InitialCameraHealth
    /\ files = {}
    /\ pm_pc = "for" /\ pm_i = 1 /\ is_motion = FALSE /\ prev_motion = FALSE
    /\ pm_log = PmIdleLog /\ pm_probed = {}
    /\ hc_pc = "for" /\ hc_i = 1 /\ status_code = 0 /\ hc_tmp = 0
    /\ hc_log = HcIdleLog /\ hc_probed = {}
    /\ cap = "none" /\ retry_count = 0 /\ rl_pc = "idle" /\ rl_log = RlIdleLog
    /\ api_pc = "idle" /\ api_name = "" /\ api_i = 0 /\ api_resp = NoResponse

\* the hub at the start of its threads; no camera script is followed
InitThreads ==
    /\ InitHub0
    /\ station = [active |-> FALSE, connected |-> FALSE]
    /\ InitDevice

InitMotion ==
    /\ cameras \in CameraLists
    /\ recording \in RecordingConfigs
    /\ InitThreads

NextMotion == poll_motion \/ Tick

SpecMotion == InitMotion /\ [][NextMotion]_vars

InitHealth ==
    /\ cameras \in CameraLists
    /\ recording = [enabled |-> TRUE, snapshot_on_motion |-> TRUE]
    /\ InitThreads

NextHealth == health_check \/ Tick

SpecHealth == InitHealth /\ [][NextHealth]_vars

\* a camera the loops probe
Good(cam) == Enabled(cam) /\ cam.has_ip

\* the configurations with one camera to probe: beside it a disabled entry,
\* or an enabled entry without 'ip', before or after it
LoopCameraLists ==
    { c \in CameraLists :
        \/ Good(c[1]) /\ ~Good(c[2]) /\ (c[2].enabled # c[2].has_ip)
        \/ Good(c[2]) /\ c[1].enabled /\ ~c[1].has_ip }

\* both loops side by side; each thread keeps being scheduled
InitLoops ==
    /\ cameras \in LoopCameraLists
    /\ recording = [enabled |-> TRUE, snapshot_on_motion |-> TRUE]
    /\ InitThreads

NextLoops == poll_motion \/ health_check

SpecLoops ==
    /\ InitLoops /\ [][NextLoops]_vars
    /\ WF_vars(poll_motion) /\ WF_vars(health_check)

InitRelay ==
    /\ cameras \in CameraLists
    /\ recording = [enabled |-> TRUE, snapshot_on_motion |-> TRUE]
    /\ InitThreads

NextRelay == Stream \/ gen_frames

SpecRelay == InitRelay /\ [][NextRelay]_vars

\* the health loop and requests for the hub's health summary, interleaved
\* step by step; the clock stands still
InitSummary ==
    /\ cameras \in CameraLists
    /\ recording = [enabled |-> TRUE, snapshot_on_motion |-> TRUE]
    /\ InitThreads

NextSummary == health_check \/ api_health \/ ApiDone

SpecSummary == InitSummary /\ [][NextSummary]_vars

\* no request is in progress
RequestsIdle == rl_pc = "idle" /\ api_pc = "idle"

\* both loops are between two cycles
LoopsBetweenCycles ==
    /\ pm_pc \in {"sleep", "cycle_error"}
    /\ hc_pc \in {"sleep", "cycle_error"}

\* the hub with its loops, its relay and its read API: the two loops run
\* interleaved step by step, and a request (one at a time) is served while
\* both loops wait for their next cycle
InitHub ==
    /\ cameras \in LoopCameraLists
    /\ recording = [enabled |-> TRUE, snapshot_on_motion |-> TRUE]
    /\ InitThreads

NextHub ==
    \/ RequestsIdle /\ (poll_motion \/ health_check)
    \/ LoopsBetweenCycles /\ api_pc = "idle" /\ (Stream \/ gen_frames)
    \/ LoopsBetweenCycles /\ rl_pc = "idle" /\ read_api

SpecHub == InitHub /\ [][NextHub]_vars

\* the camera script from the start of main(), with its station in any of
\* its states; the hub is not followed
InitCamera ==
    /\ cameras = <<[name |-> CameraNames[1], enabled |-> TRUE, has_ip |-> TRUE],
                   [name |-> CameraNames[2], enabled |-> TRUE, has_ip |-> TRUE]>>
    /\ recording = [enabled |-> TRUE, snapshot_on_motion |-> TRUE]
    /\ InitHub0
    /\ station \in Stations
    /\ InitDevice

NextCamera == main \/ LinkUp

SpecCamera == InitCamera /\ [][NextCamera]_vars

(***************************************************************************)
(* The claims                                                              *)
(***************************************************************************)
\* the camera poll_motion has just finished with
PmDone == pm_log.done

\* the poll met a false -> true transition of the stored motion flag
PmEdge == ~pm_log.before /\ pm_log.result = "true"

\* C1 (as stated): with recording and snapshot-on-motion enabled, a poll of
\* a camera writes exactly one snapshot when it is a false -> true
\* transition of the stored motion flag, and none otherwise.
C1_SnapshotOncePerTransition ==
    (PmDone /\ recording.enabled /\ recording.snapshot_on_motion) =>
        pm_log.writes = (IF PmEdge THEN 1 ELSE 0)

\* C1 (amended): a poll attempts exactly one snapshot when it is a
\* false -> true transition of the stored motion flag and both
\* recording.enabled and snapshot_on_motion are set, and none otherwise; it
\* writes at most the one file of that attempt, and never writes when the
\* stored flag was already true.
C1_SnapshotAttemptPerTransition ==
    PmDone =>
        /\ pm_log.attempts =
             (IF PmEdge /\ recording.enabled /\ recording.snapshot_on_motion
              THEN 1 ELSE 0)
        /\ pm_log.writes \in 0..pm_log.attempts
        /\ pm_log.writes = 1 => \E t \in 0..now : <<pm_log.name, t>> \in files
        /\ pm_log.before => pm_log.writes = 0

C1_Witness ==
    /\ PmDone /\ PmEdge /\ pm_log.writes = 1
    /\ motion_state[pm_log.name]

\* C2: right after a motion probe of a camera failed, the stored motion
\* flag of that camera is false, whatever it was before the probe.
C2_FailedProbeClearsMotion ==
    (PmDone /\ pm_log.result = "fail") => ~motion_state[pm_log.name]

C2_Witness ==
    /\ PmDone /\ pm_log.result = "fail" /\ pm_log.before
    /\ ~motion_state[pm_log.name]

\* the camera health_check has just finished with
HcDone == hc_log.done

\* the uptime of the camera before the check, as .get('uptime', 0) reads it
HcUptimeBefore == IF hc_log.up_before = Absent THEN 0 ELSE hc_log.up_before

\* C3 (as stated): a check that reads the camera as offline (the probe
\* raised, or answered with a non-success status) leaves uptime 0, and a
\* check that reads it as online leaves uptime increased by the interval.
C3_UptimeResetOrIncreased ==
    HcDone =>
        /\ hc_log.reading = 200 =>
             camera_health[hc_log.name].uptime = HcUptimeBefore + HealthCheckInterval
        /\ (hc_log.raised \/ hc_log.reading \in {404, 503}) =>
             UptimeOf(hc_log.name) = 0

\* a status code of the 2xx class
SuccessStatus(code) == code \in 200..299

\* C4 (as stated): after a health probe the online flag is true exactly when
\* the probe returned a response with a success status.
C4_OnlineIffSuccessStatus ==
    HcDone =>
        (camera_health[hc_log.name].online <=>
            (~hc_log.raised /\ SuccessStatus(hc_log.reading)))

\* C4 (amended): after a health probe the online flag is true exactly when
\* the probe returned a response with status code 200; an exception and
\* every other status leave it false.
C4_OnlineIffStatus200 ==
    HcDone =>
        (camera_health[hc_log.name].online <=>
            (~hc_log.raised /\ hc_log.reading = 200))

C4_Witness ==
    /\ HcDone /\ hc_log.reading = 200 /\ camera_health[hc_log.name].online
    /\ hc_log.up_before = 0

\* C5: a relay tears the connection down on the 3rd failed read in a row,
\* and on no earlier one.
C5_TeardownOnThirdFailure ==
    /\ rl_log.event = "teardown" => rl_log.fails = 3
    /\ rl_log.event = "retry" => rl_log.fails < 3

\* C6: after every successful frame read the retry counter is zero.
C6_SuccessfulReadResetsRetries ==
    rl_log.event = "frame" => retry_count = 0

\* C7: once the generator was closed at its yield, the relay holds no open
\* upstream connection.
C7_ClosedRelayHoldsNoConnection ==
    rl_pc = "closed" => cap # "open"

\* a new cycle of the loop begins
PmCycleBegins == pm_pc = "for" /\ pm_i = 1
HcCycleBegins == hc_pc = "for" /\ hc_i = 1

\* C8: neither loop ever leaves its while loop, and each of them begins a
\* new cycle again and again, also after a cycle-level error.
C8_LoopsNeverExit ==
    /\ [](pm_pc # "exited" /\ hc_pc # "exited")
    /\ []<>PmCycleBegins
    /\ []<>HcCycleBegins

\* a cycle of poll_motion begins after a cycle that polled the first camera
\* and then ended with a cycle-level error at the second
C8_Witness ==
    /\ PmCycleBegins /\ pm_log.done
    /\ Enabled(cameras[2]) /\ ~cameras[2].has_ip

\* the cameras a cycle has to probe
Probeable == { cameras[k].name : k \in { j \in 1..Len(cameras) : Good(cameras[j]) } }

\* C9: when a cycle of either loop ends, every enabled camera that can be
\* probed was probed in it, whatever happened at the other cameras.
C9_CycleProbesEveryCamera ==
    /\ pm_pc \in {"sleep", "cycle_error"} => Probeable \subseteq pm_probed
    /\ hc_pc \in {"sleep", "cycle_error"} => Probeable \subseteq hc_probed

\* C10: after a poll that observed motion = true the camera's last_motion
\* is a time of that poll (between the probe's answer and now), on an edge
\* and on a repeated true alike; after a poll that observed false or failed
\* it is what it was before the poll.
C10_LastMotionFollowsMotion ==
    PmDone =>
        LET lm == camera_health[pm_log.name].last_motion
        IN  IF pm_log.result = "true"
            THEN pm_log.t_probe <= lm /\ lm <= now
            ELSE lm = pm_log.lm_before

\* a repeated true reading moved last_motion forward
C10_Witness ==
    /\ PmDone /\ pm_log.result = "true" /\ pm_log.before
    /\ pm_log.lm_before # Absent
    /\ camera_health[pm_log.name].last_motion > pm_log.lm_before

\* C13 (as stated): a poll attempts the snapshot fetch exactly when the new
\* flag is true, the stored flag was false and snapshot_on_motion is set;
\* no other setting suppresses it.
C13_SnapshotIffEdgeAndSwitch ==
    PmDone =>
        (pm_log.attempts > 0 <=> (PmEdge /\ recording.snapshot_on_motion))

\* C13 (amended): a poll attempts the snapshot fetch exactly when the new
\* flag is true, the stored flag was false, snapshot_on_motion is set and
\* recording.enabled is set; with recording.enabled unset no poll attempts
\* it.
C13_SnapshotIffEdgeAndBothSwitches ==
    /\ PmDone =>
         (pm_log.attempts > 0 <=>
            (PmEdge /\ recording.snapshot_on_motion /\ recording.enabled))
    /\ ~recording.enabled => pm_log.attempts = 0

\* an edge with both switches set: the fetch was attempted (and failed)
C13_Witness ==
    /\ PmDone /\ PmEdge /\ recording.snapshot_on_motion /\ recording.enabled
    /\ pm_log.attempts = 1 /\ pm_log.writes = 0

PmRepeatedSnapshot == PmDone /\ pm_log.writes = 1 /\ pm_log.prev_stamp # Absent

\* C17 (as stated): the stamp in the file name of a snapshot is greater
\* than the stamp of every earlier snapshot of the same camera, so two
\* motion events of a camera never write the same file name.
C17_StampsStrictlyIncrease ==
    PmRepeatedSnapshot => pm_log.stamp > pm_log.prev_stamp

\* C17 (amended): the stamp in the file name of a snapshot is a whole second
\* of the poll that wrote it and is never less than the stamp of an earlier
\* snapshot of the same camera; it equals the earlier stamp when both events
\* fall into the same second, and the write then goes to the same file name.
C17_StampsNeverDecrease ==
    /\ PmRepeatedSnapshot => pm_log.stamp >= pm_log.prev_stamp
    /\ (PmDone /\ pm_log.writes = 1) =>
         /\ pm_log.t_probe \div TicksPerSecond <= pm_log.stamp
         /\ pm_log.stamp <= now \div TicksPerSecond
         /\ <<pm_log.name, pm_log.stamp>> \in files
         /\ \A f \in files : f[1] = pm_log.name => f[2] <= pm_log.stamp

\* a later motion event wrote a snapshot under a greater stamp
C17_Witness ==
    PmRepeatedSnapshot /\ pm_log.stamp > pm_log.prev_stamp

\* the field group poll_motion writes: the motion flags and last_motion
MotionFields ==
    <<motion_state, [n \in DOMAIN camera_health |-> camera_health[n].last_motion]>>

\* the field group health_check writes: online, last_check and uptime
HealthFields ==
    [n \in DOMAIN camera_health |->
        <<camera_health[n].online, camera_health[n].last_check, camera_health[n].uptime>>]

\* C15: with the two threads interleaved read by read and write by write,
\* no update is lost: a step of health_check leaves the motion flags and
\* last_motion as poll_motion wrote them, a step of poll_motion leaves
\* online, last_check and uptime as health_check wrote them, and the
\* last_motion of a poll that observed motion is still in place when the
\* poll of that camera ends.
C15_NoLostUpdate ==
    /\ [][ /\ pmVars' = pmVars => MotionFields' = MotionFields
           /\ hcVars' = hcVars => HealthFields' = HealthFields ]_vars
    /\ []((PmDone /\ pm_log.result = "true") =>
              camera_health[pm_log.name].last_motion >= pm_log.t_probe)

\* both threads are in the middle of an update of the same camera's record:
\* health_check between the read and the write of uptime, poll_motion
\* before its write of last_motion
C15_Witness ==
    /\ hc_pc = "add_uptime" /\ pm_pc = "last_motion"
    /\ cameras[hc_i].name = cameras[pm_i].name

\* C11: in every state after startup the keys of motion_state and the keys
\* of camera_health are exactly the names of the enabled cameras: no entry
\* is removed, and none is added for a disabled or unknown name, by the
\* loops, by a status request or by a stream request.
C11_KeysAreEnabledCameras ==
    /\ DOMAIN motion_state = EnabledNames
    /\ DOMAIN camera_health = EnabledNames

\* a status request for a name that is not an enabled camera was answered
\* after both loops had processed a camera
C11_Witness ==
    /\ api_pc = "sent" /\ api_resp.route = "status"
    /\ api_name \notin EnabledNames
    /\ PmDone /\ HcDone

\* the disabled cameras of the configuration
DisabledNames ==
    { cameras[k].name : k \in { j \in 1..Len(cameras) : ~Enabled(cameras[j]) } }

\* C12: the hub sends no request to a disabled camera: no motion poll, no
\* health probe, no snapshot fetch, and no stream connection on a viewer's
\* request.
C12_DisabledCameraGetsNoRequest ==
    /\ pm_probed \cap DisabledNames = {}
    /\ hc_probed \cap DisabledNames = {}
    /\ pm_log.attempts > 0 => pm_log.name \notin DisabledNames
    /\ rl_log.event # "none" => rl_log.name \notin DisabledNames

\* the step is one of the relay or of the read API
RequestStep == relayVars' # relayVars \/ apiVars' # apiVars

\* C14: each field group has one writer: the motion flags and last_motion
\* change only in steps of poll_motion, online, last_check and uptime only
\* in steps of health_check, and the steps of a relay and of the read API
\* (status, api_cameras, api_health) leave both maps as they are.
C14_SingleWriterPerFieldGroup ==
    [][ /\ MotionFields' # MotionFields => (pmVars' # pmVars /\ HealthFields' = HealthFields)
        /\ HealthFields' # HealthFields => (hcVars' # hcVars /\ MotionFields' = MotionFields)
        /\ RequestStep => storeVars' = storeVars ]_vars

\* a relay delivers frames and both loops have written to the record of the
\* camera it streams
C14_Witness ==
    /\ rl_log.event = "frame"
    /\ rl_log.name \in DOMAIN camera_health
    /\ camera_health[rl_log.name].online
    /\ camera_health[rl_log.name].last_motion # Absent

\* stream_frames is running for the current client
SfRunning == cm_pc \in {"sf_headers", "sf_capture", "sf_frame"}

\* C18: stream_frames returns normally exactly when camera.capture() has
\* failed MAX_CAPTURE_RETRIES (5) times in a row: it has returned when the
\* 5th failure in a row is counted and keeps running below that; a captured
\* frame sets the count of failures back to 0; and when every capture
\* failed, the client was sent the response headers and nothing else.
C18_ReturnsAfterMaxCaptureFailures ==
    /\ sf_log.ended = "returned" <=> sf_log.fails = MAX_CAPTURE_RETRIES
    /\ (cm_pc = "ss_close" /\ sf_log.ended = "returned") => cm_exc = "none"
    /\ SfRunning => sf_log.fails < MAX_CAPTURE_RETRIES
    /\ cm_pc \in {"sf_capture", "sf_frame"} => retries = sf_log.fails
    /\ cm_pc = "sf_frame" => retries = 0
    /\ (sf_log.ended = "returned" /\ sf_log.frames = 0) => out = HeaderSegments

\* the stream sent a frame and then ended on 5 failed captures in a row
C18_Witness ==
    /\ sf_log.ended = "returned" /\ sf_log.frames >= 1
    /\ sf_log.fails = MAX_CAPTURE_RETRIES

\* the accepted clients whose socket is open
OpenClients == { k \in 1..Len(clients) : clients[k].open }

\* C19: start_server serves one client at a time and closes every accepted
\* client exactly once when its stream_frames call ends, after a normal
\* return and after an OSError alike; it is then back at accept with no
\* client open; and once an exception has left the accept loop the server
\* socket is closed.
C19_ClientsClosedOnce ==
    /\ Cardinality(OpenClients) <= 1
    /\ \A k \in 1..Len(clients) :
         /\ clients[k].closes <= 1
         /\ clients[k].open <=> clients[k].closes = 0
         /\ clients[k].open =>
              (k = Len(clients) /\ (SfRunning \/ cm_pc \in {"ss_except", "ss_close"}))
    /\ (SfRunning \/ cm_pc \in {"ss_except", "ss_close"}) => OpenClients = {Len(clients)}
    /\ (cm_pc = "ss_close" /\ sf_log.ended \in {"returned", "oserror"}) => cm_exc = "none"
    /\ cm_pc = "accept" => (cm_exc = "none" /\ server_socket = "listening")
    /\ (cm_pc = "raised" /\ "start_server" \in { cm_calls[k] : k \in 1..Len(cm_calls) }) =>
         server_socket \in {"closed", "open"}
    /\ server_socket = "open" => clients = <<>>

\* the server is back at accept after a client that went away and one whose
\* stream returned, both closed once
C19_Witness ==
    /\ cm_pc = "accept" /\ Len(clients) = 2
    /\ sf_log.ended = "oserror"
    /\ \A k \in 1..Len(clients) : clients[k].closes = 1

\* C20: connect_wifi returns the address without calling connect when the
\* station is connected already; otherwise it calls connect once and polls:
\* it returns the address only after isconnected() answered true, keeps
\* polling while the clock has not passed the deadline (the start plus
\* WIFI_CONNECT_TIMEOUT), and raises OSError, with the station deactivated,
\* at the first check that finds the clock past the deadline.
C20_ConnectWifiReturnsOrTimesOut ==
    /\ cw_log.connects <= 1
    /\ cw_log.result # "none" => (cw_log.was_connected <=> cw_log.connects = 0)
    /\ cw_log.was_connected => cw_log.result = "ip"
    /\ cw_log.result = "ip" => (cw_log.seen /\ station.connected)
    /\ cw_log.connects = 1 => deadline = WIFI_CONNECT_TIMEOUT
    /\ cm_pc = "cw_sleep" => (cw_log.t_check <= deadline /\ ~cw_log.seen)
    /\ cw_log.result = "oserror" =>
         /\ cw_log.t_check > deadline
         /\ ~cw_log.seen /\ ~station.active /\ ~station.connected
         /\ cm_pc = "raised" /\ cm_exc = "oserror"

\* the station got no link and connect_wifi gave up at the first check after
\* the deadline
C20_Witness ==
    /\ cw_log.result = "oserror" /\ cw_log.connects = 1
    /\ cw_log.t_check = deadline + 1

\* the calls of main(), in the order of its statements
MainCalls == <<"connect_wifi", "configure_camera", "start_server">>

\* main() is inside start_server
InStartServer ==
    SfRunning \/ cm_pc \in {"accept", "ss_except", "ss_close", "ss_finally"}

\* C21: main() calls connect_wifi, then configure_camera, then start_server,
\* each once and in that order: the calls made so far are a beginning of
\* that sequence, the camera is configured only after connect_wifi returned
\* an address and the server runs only after the camera was configured; when
\* connect_wifi raises, the camera is not configured and no server socket
\* is made.
C21_MainCallsInOrder ==
    /\ Len(cm_calls) <= Len(MainCalls)
    /\ cm_calls = SubSeq(MainCalls, 1, Len(cm_calls))
    /\ Len(cm_calls) >= 2 => cw_log.result = "ip"
    /\ Len(cm_calls) = 3 => sensor = "jpeg"
    /\ InStartServer => cm_calls = MainCalls
    /\ cw_log.result = "oserror" =>
         /\ cm_calls = <<"connect_wifi">>
         /\ sensor = "unknown" /\ server_socket = "none"
         /\ cm_pc = "raised"

\* the server accepts clients after the three calls
C21_Witness ==
    /\ cm_pc = "accept" /\ cm_calls = MainCalls
    /\ cw_log.connects = 1

\* the response of stream_frames, segment by segment: the status line and
\* the two response headers, then frame after frame
ResponseSegment(k) ==
    CASE k = 1 -> "status_line"
      [] k = 2 -> "content_type"
      [] k = 3 -> "connection"
      [] k > 3 /\ (k - 3) % 5 = 1 -> "boundary"
      [] k > 3 /\ (k - 3) % 5 = 2 -> "part_content_type"
      [] k > 3 /\ (k - 3) % 5 = 3 -> "content_length"
      [] k > 3 /\ (k - 3) % 5 = 4 -> "payload"
      [] k > 3 /\ (k - 3) % 5 = 0 -> "crlf"

\* C22: what stream_frames has written to its client is, at every moment,
\* the status line and the response headers once, in front of every frame,
\* followed by the frames, each one boundary, Content-Type, Content-Length,
\* payload, CRLF in that order; a capture is made, and a failed capture is
\* counted, only between whole frames, so no failed capture starts a frame.
C22_HeadersOnceThenWholeFrames ==
    /\ \A k \in 1..Len(out) : out[k] = ResponseSegment(k)
    /\ cm_pc = "sf_capture" => Len(out) = 3 + 5 * sf_log.frames
    /\ sf_log.ended \in {"returned", "exception"} => Len(out) = 3 + 5 * sf_log.frames
    /\ sf_log.fails > 0 => Len(out) = 3 + 5 * sf_log.frames
    /\ cm_pc = "sf_frame" => (sf_log.fails = 0 /\ Len(out) = 3 + 5 * sf_log.frames + sf_k - 1)

\* two whole frames were written after captures that had failed in between
C22_Witness ==
    /\ Len(out) = 13 /\ sf_log.frames = 2
    /\ sf_log.fails > 0

\* the read and the re-encode of the relay's iteration both succeeded
RlIterationGood == rl_log.read = "frame" /\ rl_log.encode = "encoded"

\* C23: a relay emits a chunk in an iteration exactly when the read and the
\* re-encode of that iteration both succeeded: it is at its yield only after
\* both, and after both it is at its yield (or was resumed or closed there);
\* after a failed read, a failed encode or an exception it is at the top of
\* its loop again, with nothing emitted and the relay still running.
C23_ChunkIffReadAndEncode ==
    /\ rl_pc = "yield" => RlIterationGood
    /\ RlIterationGood => (rl_pc \in {"yield", "closed"} \/ rl_log.event = "resumed")
    /\ rl_log.event = "chunk" <=> rl_pc = "yield"
    /\ (rl_log.read # "none" /\ ~RlIterationGood) =>
         /\ rl_pc \in {"top", "encode"}
         /\ rl_pc = "top" <=> rl_log.event \in {"retry", "teardown", "skip", "error"}
         /\ rl_pc = "encode" <=> (rl_log.read = "frame" /\ rl_log.encode = "none")
    /\ rl_pc = "closed" => rl_log.event = "closed"

\* a frame was read and could not be encoded: the relay is back at the top
C23_Witness ==
    /\ rl_log.read = "frame" /\ rl_log.encode = "not_encoded"
    /\ rl_pc = "top" /\ cap = "open"

\* C24: a relay makes a connection attempt only at its start or after a
\* backoff sleep: no attempt follows the attempt before it without a sleep
\* between the two, also when the connection did not open.
C24_BackoffBetweenAttempts ==
    ~rl_log.hot

\* C27: the retry counter of a relay is always within 0..max_retries + 1;
\* when it exceeds max_retries the connection has been torn down, the relay
\* is at the top of its loop, and the read that follows (after the new
\* connection attempt) finds the counter at 0.
C27_RetryCounterBounded ==
    /\ retry_count \in 0..(max_retries + 1)
    /\ (retry_count > max_retries /\ rl_pc # "closed") =>
          (cap = "none" /\ rl_pc = "top" /\ rl_log.event = "teardown")
    /\ rl_pc \in {"read", "encode", "yield"} => retry_count <= max_retries
    /\ (rl_pc = "read" /\ rl_log.event = "connect") => retry_count = 0

\* the counter has passed max_retries and the connection is torn down
C27_Witness ==
    /\ retry_count = max_retries + 1
    /\ cap = "none" /\ rl_pc = "top"

\* the poll met an edge and its snapshot attempt failed
PmSnapshotFailed == PmDone /\ PmEdge /\ pm_log.attempts = 1 /\ pm_log.writes = 0

\* the snapshot files of a camera
FilesOf(name) == { f \in files : f[1] = name }

\* C25: a snapshot fetch or file write that fails on a motion edge stays
\* inside that camera's processing: the step that fails writes no file and
\* goes on to the next camera of the cycle; after it the camera's motion
\* flag is true and its last_motion is a time of that poll; and a poll that
\* finds the stored flag true attempts no snapshot, so the failed one is not
\* retried while the motion lasts.
C25_SnapshotFailureAbsorbed ==
    /\ [][ pm_pc = "record" /\ pm_pc' # "record" =>
             /\ pm_pc' = "for" /\ pm_i' = pm_i + 1
             /\ pm_log'.done
             /\ pm_log'.writes = pm_log.writes => files' = files
             /\ storeVars' = storeVars ]_vars
    /\ [](PmSnapshotFailed =>
             /\ motion_state[pm_log.name]
             /\ camera_health[pm_log.name].last_motion >= pm_log.t_probe
             /\ camera_health[pm_log.name].last_motion <= now)
    /\ [](pm_log.before => pm_log.attempts = 0)

\* motion lasts on a camera whose snapshot failed at the edge: the poll found
\* the flag true, no file of the camera exists, and no snapshot was attempted
C25_Witness ==
    /\ PmDone /\ pm_log.before /\ pm_log.result = "true"
    /\ recording.enabled /\ recording.snapshot_on_motion
    /\ FilesOf(pm_log.name) = {}
    /\ pm_log.attempts = 0
    /\ motion_state[pm_log.name]

\* C26: a health probe that got a response, whatever its status, has moved
\* the camera's last_check to the time of the probe (between the response
\* and now); a probe that raised has left last_check as it was; so no step
\* ever moves a last_check back, and a camera found online by its latest
\* probe carries the time of that probe as last_check.
C26_LastCheckFollowsResponses ==
    /\ [](HcDone =>
            LET lc == camera_health[hc_log.name].last_check
            IN  /\ IF hc_log.raised
                   THEN lc = hc_log.lc_before
                   ELSE hc_log.t_probe <= lc /\ lc <= now
                /\ camera_health[hc_log.name].online =>
                     (~hc_log.raised /\ hc_log.t_probe <= lc))
    /\ [][ \A n \in DOMAIN camera_health :
              camera_health'[n].last_check >= camera_health[n].last_check ]_vars

\* a camera that answered with an error status got a later last_check
C26_Witness ==
    /\ HcDone /\ ~hc_log.raised /\ hc_log.reading = 503
    /\ hc_log.lc_before > 0
    /\ camera_health[hc_log.name].last_check > hc_log.lc_before

\* the number of health records that are online now
OnlineRecords == Cardinality({ n \in DOMAIN camera_health : camera_health[n].online })

\* the number of enabled cameras in the configuration
EnabledCount == Len(SelectSeq(cameras, Enabled))

\* C28: the hub's health summary never reports more cameras online than
\* enabled cameras, however the steps of health_check fall between the
\* steps of the request, and the health records that are online are never
\* more than the enabled cameras.
C28_OnlineAtMostCount ==
    /\ OnlineRecords <= EnabledCount
    /\ api_resp.route = "api_health" =>
         /\ api_resp.cameras_count = EnabledCount
         /\ api_resp.cameras_online <= api_resp.cameras_count

\* a summary with every camera online is answered while health_check is in
\* the middle of a cycle and has since found a camera offline
C28_Witness ==
    /\ api_pc = "sent" /\ api_resp.route = "api_health" /\ api_resp.code = 200
    /\ api_resp.cameras_count = 2
    /\ api_resp.cameras_online = 2
    /\ OnlineRecords < 2
    /\ hc_pc \notin {"sleep", "cycle_error"}

====
